---- MODULE Spec2Model ----
(***************************************************************************)
(* Model of src/src/dataSources/DataSource_file.py: the filename parser    *)
(* parse_filename and the file-backed sample source Input.                 *)
(*                                                                         *)
(* Strings are sequences of one-character strings, so that split, strip,   *)
(* substring search, slicing and float() are computed character by         *)
(* character.  A float is a decimal number [m |-> mantissa, e |-> power of  *)
(* ten] kept normalised (m not divisible by 10, zero is [m=0,e=0]); the     *)
(* binary rounding of IEEE doubles is not modelled.                        *)
(***************************************************************************)
EXTENDS Integers, Sequences, FiniteSets, TLC

VARIABLES
    disk,                    \* what the path names on disk (environment)
    pc,                      \* "new" | "constructed" | "failed" | "parse" | "parsed"
    args,                    \* data_type, sample_rate, centre_frequency as the caller gave them
    file_name,               \* file_name argument / self._source
    number_complex_samples,  \* self._number_complex_samples
    data_type,               \* self._data_type
    bytes_per_snap,          \* self._bytes_per_snap
    sample_rate,             \* self._sample_rate
    centre_frequency,        \* self._centre_frequency
    wav_file,                \* self._wav_file
    file,                    \* self._file
    connected,               \* self._connected
    sleep_time,              \* self._sleep_time
    parsed,                  \* value (or exception) of the last parse_filename call
    raw_bytes,               \* raw_bytes of the last read_cplx_samples call
    hist,                    \* outcomes of the last two calls, newest last
    replay,                  \* progress through: read fails at end of stream, reconnect, read
    exhausted,               \* a read failed at end of stream, no reconnect or close since
    first_read,              \* outcome and bytes of the first read_cplx_samples call whose read returned
    run,                     \* progress of the run of reads started at construction
    n_ok                     \* reads that succeeded in that run

vars == <<disk, pc, args, file_name, number_complex_samples, data_type, bytes_per_snap,
          sample_rate, centre_frequency, wav_file, file, connected, sleep_time,
          parsed, raw_bytes, hist, replay, exhausted, first_read, run, n_ok>>

----------------------------------------------------------------------------
(* Bounds *)

MaxPrefix == 3       \* leading fields of a generated filename
MaxFileBytes == 9    \* size of a raw file, bytes
MaxFrames == 3       \* frames in a container
MaxSamples == 2      \* number_complex_samples
MaxSleep == 1        \* set_sleep_time argument

----------------------------------------------------------------------------
(* Strings *)

Min(a, b) == IF a < b THEN a ELSE b

Digits == {"0", "1", "2", "3", "4", "5", "6", "7", "8", "9"}

DigitVal(c) ==
    CASE c = "0" -> 0 [] c = "1" -> 1 [] c = "2" -> 2 [] c = "3" -> 3
      [] c = "4" -> 4 [] c = "5" -> 5 [] c = "6" -> 6 [] c = "7" -> 7
      [] c = "8" -> 8 [] c = "9" -> 9

\* s[from:] with a 0-based start, as a Python slice
SliceFrom(s, from) == IF from >= Len(s) THEN <<>> ELSE SubSeq(s, from + 1, Len(s))

\* sub in s
Contains(s, sub) ==
    \E i \in 1..(Len(s) - Len(sub) + 1) : SubSeq(s, i, i + Len(sub) - 1) = sub

\* position of the first "." of s, or 0
FirstDot(s) ==
    IF \E i \in 1..Len(s) : s[i] = "."
    THEN CHOOSE i \in 1..Len(s) : s[i] = "." /\ \A j \in 1..(i - 1) : s[j] # "."
    ELSE 0

RECURSIVE Split(_)
\* s.split('.')
Split(s) ==
    IF FirstDot(s) = 0 THEN <<s>>
    ELSE <<SubSeq(s, 1, FirstDot(s) - 1)>> \o Split(SliceFrom(s, FirstDot(s)))

RECURSIVE Strip(_)
\* s.strip()
Strip(s) ==
    IF s = <<>> THEN s
    ELSE IF s[1] = " " THEN Strip(Tail(s))
    ELSE IF s[Len(s)] = " " THEN Strip(SubSeq(s, 1, Len(s) - 1))
    ELSE s

RECURSIVE Join(_)
\* '.'.join(fields)
Join(fields) ==
    IF fields = <<>> THEN <<>>
    ELSE IF Len(fields) = 1 THEN fields[1]
    ELSE fields[1] \o <<".">> \o Join(Tail(fields))

----------------------------------------------------------------------------
(* Floats *)

Zero == [m |-> 0, e |-> 0]

RECURSIVE Norm(_, _)
Norm(m, e) ==
    IF m = 0 THEN Zero
    ELSE IF m % 10 = 0 THEN Norm(m \div 10, e + 1)
    ELSE [m |-> m, e |-> e]

RECURSIVE DigitsVal(_)
DigitsVal(s) == IF s = <<>> THEN 0 ELSE 10 * DigitsVal(SubSeq(s, 1, Len(s) - 1)) + DigitVal(s[Len(s)])

AllDigits(s) == \A i \in 1..Len(s) : s[i] \in Digits

\* float(s) for an unsigned decimal: digits, at most one ".", at least one digit
UFloat(s) ==
    LET d == FirstDot(s)
        ip == IF d = 0 THEN s ELSE SubSeq(s, 1, d - 1)
        fp == IF d = 0 THEN <<>> ELSE SliceFrom(s, d)
    IN IF AllDigits(ip) /\ AllDigits(fp) /\ Len(ip) + Len(fp) > 0
       THEN [ok |-> TRUE, val |-> Norm(DigitsVal(ip \o fp), 0 - Len(fp))]
       ELSE [ok |-> FALSE, val |-> Zero]

\* float(s): ok = FALSE stands for ValueError
FloatOf(s) ==
    LET t == Strip(s)
    IN IF t # <<>> /\ t[1] \in {"-", "+"}
       THEN LET u == UFloat(Tail(t))
            IN [ok |-> u.ok,
                val |-> IF t[1] = "-" THEN [m |-> 0 - u.val.m, e |-> u.val.e] ELSE u.val]
       ELSE UFloat(t)

\* x * 1e6
TimesMega(x) == IF x.m = 0 THEN Zero ELSE [m |-> x.m, e |-> x.e + 6]

----------------------------------------------------------------------------
(* parse_filename *)

cplx_s == <<"c", "p", "l", "x">>
real_s == <<"r", "e", "a", "l">>
t8 == <<"8", "t">>
t16tle == <<"1", "6", "t", "l", "e">>

\* DataSource.supported_data_types, the catalogue of encodings
supported_data_types == {t8, t16tle}

\* the values parse_filename starts from
ParseDefaults ==
    [exc |-> "none", ok |-> FALSE, data_type |-> <<>>, complex_flag |-> TRUE,
     sample_rate_hz |-> Zero, centre_frequency |-> Zero]

\* parts = [x.strip() for x in filename.split('.')]
PartsOf(filename) == [i \in 1..Len(Split(filename)) |-> Strip(Split(filename)[i])]

\* indices = [i for i, part in enumerate(parts) if 'cf' in part], 1-based
CfIndices(parts) == {i \in 1..Len(parts) : Contains(parts[i], <<"c", "f">>)}

\* CfOfIndex with the short form dropping three characters instead of two
CfOfIndex_slice3(parts, index) ==
    LET cf == parts[index]
    IN IF index + 1 > Len(parts)
       THEN [exc |-> "IndexError", val |-> Zero]
       ELSE IF parts[index + 1] \in {cplx_s, real_s}
       THEN LET f == FloatOf(SliceFrom(cf, 3))
            IN [exc |-> "none", val |-> IF f.ok THEN TimesMega(f.val) ELSE Zero]
       ELSE LET cf_decimal_fraction == parts[Len(parts) - 3]
                f == FloatOf(SliceFrom(cf, 2) \o <<".">> \o cf_decimal_fraction)
            IN [exc |-> "none", val |-> IF f.ok THEN TimesMega(f.val) ELSE Zero]

\* CfOfIndex with the long form joining the two fields without the point
CfOfIndex_nopoint(parts, index) ==
    LET cf == parts[index]
    IN IF index + 1 > Len(parts)
       THEN [exc |-> "IndexError", val |-> Zero]
       ELSE IF parts[index + 1] \in {cplx_s, real_s}
       THEN LET f == FloatOf(SliceFrom(cf, 2))
            IN [exc |-> "none", val |-> IF f.ok THEN TimesMega(f.val) ELSE Zero]
       ELSE LET cf_decimal_fraction == parts[Len(parts) - 3]
                f == FloatOf(SliceFrom(cf, 2) \o cf_decimal_fraction)
            IN [exc |-> "none", val |-> IF f.ok THEN TimesMega(f.val) ELSE Zero]

\* the try block guarded by len(indices) == 1: the centre frequency it
\* assigns (Zero when float() raises ValueError, which is caught), or the
\* IndexError of parts[index + 1], which is not caught
CfOfIndex(parts, index) ==
    LET cf == parts[index]
    IN IF index + 1 > Len(parts)
       THEN [exc |-> "IndexError", val |-> Zero]
       ELSE IF parts[index + 1] \in {cplx_s, real_s}
       THEN LET f == FloatOf(SliceFrom(cf, 2))
            IN [exc |-> "none", val |-> IF f.ok THEN TimesMega(f.val) ELSE Zero]
       ELSE LET cf_decimal_fraction == parts[Len(parts) - 3]
                f == FloatOf(SliceFrom(cf, 2) \o <<".">> \o cf_decimal_fraction)
            IN [exc |-> "none", val |-> IF f.ok THEN TimesMega(f.val) ELSE Zero]

\* CfParse taking the last cf field when several fields contain cf
CfParse_lastindex(filename, parts) ==
    IF Contains(filename, <<".", "c", "f">>) /\ Cardinality(CfIndices(parts)) >= 1
    THEN CfOfIndex(parts, CHOOSE i \in CfIndices(parts) : \A j \in CfIndices(parts) : j <= i)
    ELSE [exc |-> "none", val |-> Zero]

\* the centre-frequency part of parse_filename, for len(parts) >= 4
CfParse(filename, parts) ==
    IF Contains(filename, <<".", "c", "f">>) /\ Cardinality(CfIndices(parts)) = 1
    THEN CfOfIndex(parts, CHOOSE i \in CfIndices(parts) : TRUE)
    ELSE [exc |-> "none", val |-> Zero]

\* "check the fields make as much sense as we can here": ok, complex_flag and
\* sample_rate_hz from the last three fields
FieldsCheck(cplx, sample_rate_s, data_type_s) ==
    IF cplx \in {cplx_s, real_s}
    THEN IF cplx # cplx_s
         THEN [ok |-> FALSE, complex_flag |-> FALSE, sample_rate_hz |-> Zero]
         ELSE IF data_type_s \in supported_data_types
         THEN LET f == FloatOf(sample_rate_s)
              IN [ok |-> f.ok, complex_flag |-> TRUE,
                  sample_rate_hz |-> IF f.ok THEN f.val ELSE Zero]
         ELSE [ok |-> FALSE, complex_flag |-> TRUE, sample_rate_hz |-> Zero]
    ELSE [ok |-> FALSE, complex_flag |-> TRUE, sample_rate_hz |-> Zero]

\* parse_filename(filename): the returned tuple, or exc = "IndexError"
parse_filename(filename) ==
    IF filename = <<>> THEN ParseDefaults
    ELSE LET parts == PartsOf(filename)
             n == Len(parts)
         IN IF n < 4 THEN ParseDefaults
            ELSE LET c == CfParse(filename, parts)
                     k == FieldsCheck(parts[n - 2], parts[n - 1], parts[n])
                 IN IF c.exc # "none"
                    THEN [ParseDefaults EXCEPT !.exc = c.exc]
                    ELSE [exc |-> "none", ok |-> k.ok, data_type |-> parts[n],
                          complex_flag |-> k.complex_flag,
                          sample_rate_hz |-> k.sample_rate_hz,
                          centre_frequency |-> c.val]

----------------------------------------------------------------------------
(* Inputs *)

x_s == <<"x">>
cf1_s == <<"c", "f", "1">>
n5_s == <<"5">>
n48_s == <<"4", "8">>
neg1_s == <<"-", "1">>

\* fields a generated filename may have before its last three
PrefixFields == {x_s, cf1_s, n5_s, cplx_s}

\* fields a generated filename may have among its last three
TailFields == {cf1_s, cplx_s, real_s, n48_s, neg1_s, t8, t16tle}

\* all sequences over S of length 0..n
SeqsUpTo(S, n) == UNION {[1..k -> S] : k \in 0..n}

\* generated filenames: up to MaxPrefix leading fields, up to 3 trailing ones
Filenames ==
    {Join(p \o t) : p \in SeqsUpTo(PrefixFields, MaxPrefix), t \in SeqsUpTo(TailFields, 3)}

\* the paths Input is constructed on
SourceNames ==
    {Join(<<x_s>>),
     Join(<<x_s, cplx_s, n48_s, t8>>),
     Join(<<x_s, cf1_s, n5_s, cplx_s, n48_s, t16tle>>),
     Join(<<x_s, real_s, n48_s, t8>>),
     Join(<<x_s, x_s, x_s, cf1_s>>)}

\* what the path names: a headerless file of size bytes, a container of size
\* frames, nothing that can be opened, or a headerless file that is gone by
\* the time the second open is attempted
Disks ==
    {[kind |-> "raw", size |-> n, nchannels |-> 0, sampwidth |-> 0] : n \in 0..MaxFileBytes}
    \cup {[kind |-> "wav", size |-> n, nchannels |-> c, sampwidth |-> w] :
            n \in 0..MaxFrames, c \in {1, 2}, w \in {1, 2, 3}}
    \cup {[kind |-> k, size |-> 0, nchannels |-> 0, sampwidth |-> 0] : k \in {"missing", "vanishes"}}

\* the caller's sample_rate and centre_frequency arguments, and the
\* container's frame rate
CallerRate == [m |-> 1, e |-> 3]
CallerCf == [m |-> 2, e |-> 6]
WavFrameRate == [m |-> 8, e |-> 3]

\* the stream: count bytes from 0-based offset from; byte i of a stream is i mod 256
StreamBytes(from, count) == [i \in 1..count |-> (from + i - 1) % 256]

----------------------------------------------------------------------------
(* DataSource base class *)

\* bytes of one I or Q value in an encoding
BytesPerSample(dt) == IF dt = t8 THEN 1 ELSE 2

\* self._bytes_per_snap
BytesPerSnap(n, dt) == n * 2 * BytesPerSample(dt)

----------------------------------------------------------------------------
(* Input *)

NoHandle == [set |-> FALSE, open |-> FALSE, pos |-> 0]
OpenHandle == [set |-> TRUE, open |-> TRUE, pos |-> 0]

Outcome(op, exc, msg, ret) == [op |-> op, exc |-> exc, msg |-> msg, ret |-> ret]

\* hist with one more call, the oldest dropped
Push(h, o) == IF Len(h) < 2 THEN Append(h, o) ELSE Append(Tail(h), o)

Last(h) == h[Len(h)]

IsEof(o) == o.op = "read" /\ o.exc = "ValueError" /\ o.msg = "End of file"

\* replay after a call with outcome o
ReplayAfter(o) ==
    IF o.op = "read" /\ o.msg # "OSError" /\ replay = "rewound" THEN "reread"
    ELSE IF IsEof(o) THEN "exhausted"
    ELSE IF o.op = "reconnect" /\ replay = "exhausted" THEN "rewound"
    ELSE "none"

\* exhausted after a call with outcome o
ExhaustedAfter(o) ==
    IF IsEof(o) THEN TRUE
    ELSE IF o.op \in {"__init__", "reconnect", "close"} THEN FALSE
    ELSE exhausted

\* hist, replay and exhausted after a call with outcome o
Record(o) ==
    /\ hist' = Push(hist, o)
    /\ replay' = ReplayAfter(o)
    /\ exhausted' = ExhaustedAfter(o)

\* the state super().__init__ leaves, before the body of Input.__init__
Init ==
    /\ disk \in Disks
    /\ pc = "new"
    /\ file_name \in SourceNames
    /\ number_complex_samples \in 1..MaxSamples
    /\ data_type \in supported_data_types
    /\ args = [data_type |-> data_type, sample_rate |-> CallerRate, centre_frequency |-> CallerCf]
    /\ bytes_per_snap = BytesPerSnap(number_complex_samples, data_type)
    /\ sample_rate = CallerRate
    /\ centre_frequency = CallerCf
    /\ wav_file = NoHandle
    /\ file = NoHandle
    /\ connected = FALSE
    /\ sleep_time = 0
    /\ parsed = ParseDefaults
    /\ raw_bytes = <<>>
    /\ hist = <<>>
    /\ replay = "none"
    /\ exhausted = FALSE
    /\ first_read = [set |-> FALSE, exc |-> "none", bytes |-> <<>>]
    /\ run = "none"
    /\ n_ok = 0

\* the fields as they stand when Input.__init__ is entered
Fields0 ==
    [exc |-> "none", msg |-> "", wav_file |-> NoHandle, file |-> NoHandle,
     data_type |-> data_type, bytes_per_snap |-> bytes_per_snap,
     sample_rate |-> sample_rate, centre_frequency |-> centre_frequency,
     parsed |-> parsed]

\* InitWav accepting any sample width
InitWav_anywidth(f) ==
    IF disk.nchannels # 2
    THEN [f EXCEPT !.wav_file = OpenHandle, !.exc = "ValueError", !.msg = "wav but not 2 channels"]
    ELSE [f EXCEPT !.wav_file = OpenHandle, !.sample_rate = WavFrameRate]

\* the container branch of Input.__init__, wave.open having succeeded
InitWav(f) ==
    IF disk.nchannels # 2
    THEN [f EXCEPT !.wav_file = OpenHandle, !.exc = "ValueError", !.msg = "wav but not 2 channels"]
    ELSE IF disk.sampwidth > 2
    THEN [f EXCEPT !.wav_file = OpenHandle, !.exc = "ValueError",
                   !.msg = "wav but more than 2 bytes per sample"]
    ELSE [f EXCEPT !.wav_file = OpenHandle, !.sample_rate = WavFrameRate]

\* InitRaw taking the centre frequency of the filename even when it is zero
InitRaw_cfalways(f, p) ==
    IF disk.kind = "vanishes"
    THEN [f EXCEPT !.exc = "ValueError", !.msg = "Failed to open input file"]
    ELSE LET g == [f EXCEPT !.file = OpenHandle, !.parsed = p]
         IN IF p.exc # "none"
            THEN [g EXCEPT !.exc = p.exc, !.msg = "list index out of range"]
            ELSE IF p.ok
            THEN IF p.complex_flag
                 THEN [g EXCEPT !.data_type = p.data_type,
                                !.bytes_per_snap = BytesPerSnap(number_complex_samples, p.data_type),
                                !.sample_rate = p.sample_rate_hz,
                                !.centre_frequency = p.centre_frequency]
                 ELSE [g EXCEPT !.exc = "ValueError", !.msg = "Unsupported input of 'real'"]
            ELSE g

\* the raw-binary branch of Input.__init__, wave.open having raised
\* wave.Error; p is what parse_filename(self._source) gives
InitRaw(f, p) ==
    IF disk.kind = "vanishes"
    THEN [f EXCEPT !.exc = "ValueError", !.msg = "Failed to open input file"]
    ELSE LET g == [f EXCEPT !.file = OpenHandle, !.parsed = p]
         IN IF p.exc # "none"
            THEN [g EXCEPT !.exc = p.exc, !.msg = "list index out of range"]
            ELSE IF p.ok
            THEN IF p.complex_flag
                 THEN [g EXCEPT !.data_type = p.data_type,
                                !.bytes_per_snap = BytesPerSnap(number_complex_samples, p.data_type),
                                !.sample_rate = p.sample_rate_hz,
                                !.centre_frequency =
                                    IF p.centre_frequency # Zero THEN p.centre_frequency ELSE @]
                 ELSE [g EXCEPT !.exc = "ValueError", !.msg = "Unsupported input of 'real'"]
            ELSE g

\* the body of Input.__init__ up to the point it raises or reaches line 171
InitBody ==
    IF disk.kind = "missing"
    THEN [Fields0 EXCEPT !.exc = "OSError", !.msg = "No such file or directory"]
    ELSE IF disk.kind = "wav" THEN InitWav(Fields0)
    ELSE InitRaw(Fields0, parse_filename(file_name))

\* the end of Input.__init__, its body having left the fields f: the
\* exception leaves the constructor, or lines 171-172 run
InitEnd(f) ==
    /\ wav_file' = f.wav_file
    /\ file' = f.file
    /\ data_type' = f.data_type
    /\ bytes_per_snap' = f.bytes_per_snap
    /\ sample_rate' = f.sample_rate
    /\ centre_frequency' = f.centre_frequency
    /\ parsed' = f.parsed
    /\ Record(Outcome("__init__", f.exc, f.msg, "-"))
    /\ IF f.exc = "none"
       THEN pc' = "constructed" /\ connected' = TRUE /\ run' = "reading"
       ELSE pc' = "failed" /\ connected' = connected /\ run' = run

\* Input.__init__
Construct ==
    /\ pc = "new"
    /\ InitEnd(InitBody)
    /\ sleep_time' = 0
    /\ UNCHANGED <<disk, args, file_name, number_complex_samples, raw_bytes, first_read, n_ok>>

\* bytes in one frame of the container
FrameSize == disk.nchannels * disk.sampwidth

\* self._wav_file.readframes(n) at frame position pos: the bytes returned
ReadFrames(pos, n) == StreamBytes(pos * FrameSize, Min(n, disk.size - pos) * FrameSize)

\* self._file.read(n) at byte position pos: the bytes returned
FileRead(pos, n) == StreamBytes(pos, Min(n, disk.size - pos))

\* the ghost variables after a call of read_cplx_samples with outcome o
ReadGhosts(o, bytes) ==
    /\ Record(o)
    /\ first_read' = IF first_read.set THEN first_read
                     ELSE [set |-> TRUE, exc |-> o.exc, bytes |-> bytes]
    /\ IF run = "reading"
       THEN IF o.exc = "none" THEN run' = run /\ n_ok' = n_ok + 1
            ELSE IF o.msg = "End of file" THEN run' = "ended_eof" /\ n_ok' = n_ok
            ELSE run' = "ended_other" /\ n_ok' = n_ok
       ELSE UNCHANGED <<run, n_ok>>

\* read_cplx_samples when the handle is closed: the library raises ValueError,
\* which the except OSError clause does not catch
ReadClosed ==
    /\ ReadGhosts(Outcome("read", "ValueError", "closed file", "-"), <<>>)
    /\ UNCHANGED <<wav_file, file, connected, raw_bytes>>

\* ReadGot taking only an empty read for the end of the stream
ReadGot_emptyonly(bytes) ==
    /\ raw_bytes' = bytes
    /\ IF Len(bytes) = 0
       THEN /\ connected' = FALSE
            /\ ReadGhosts(Outcome("read", "ValueError", "End of file", "-"), bytes)
       ELSE /\ connected' = connected
            /\ ReadGhosts(Outcome("read", "none", "", "array"), bytes)

\* read_cplx_samples having obtained bytes: the length test and what follows
ReadGot(bytes) ==
    /\ raw_bytes' = bytes
    /\ IF Len(bytes) # bytes_per_snap
       THEN /\ connected' = FALSE
            /\ ReadGhosts(Outcome("read", "ValueError", "End of file", "-"), bytes)
       ELSE /\ connected' = connected
            /\ ReadGhosts(Outcome("read", "none", "", "array"), bytes)

\* Input.read_cplx_samples, the underlying read raising no OSError
read_cplx_samples ==
    /\ pc = "constructed"
    /\ IF wav_file.set
       THEN IF ~wav_file.open THEN ReadClosed
            ELSE LET bytes == ReadFrames(wav_file.pos, number_complex_samples)
                 IN /\ wav_file' = [wav_file EXCEPT !.pos = @ + Len(bytes) \div FrameSize]
                    /\ file' = file
                    /\ ReadGot(bytes)
       ELSE IF file.set
       THEN IF ~file.open THEN ReadClosed
            ELSE LET bytes == FileRead(file.pos, bytes_per_snap)
                 IN /\ file' = [file EXCEPT !.pos = @ + Len(bytes)]
                    /\ wav_file' = wav_file
                    /\ ReadGot(bytes)
       ELSE /\ ReadGhosts(Outcome("read", "none", "", "None"), <<>>)
            /\ UNCHANGED <<wav_file, file, connected, raw_bytes>>
    /\ UNCHANGED <<disk, args, pc, file_name, number_complex_samples, data_type, bytes_per_snap,
                   sample_rate, centre_frequency, sleep_time, parsed>>

\* Input.read_cplx_samples, the underlying read raising OSError: wrapped in
\* ValueError, the connected flag left alone
read_cplx_samples_oserror ==
    /\ pc = "constructed"
    /\ (wav_file.set /\ wav_file.open) \/ (~wav_file.set /\ file.set /\ file.open)
    /\ Record(Outcome("read", "ValueError", "OSError", "-"))
    /\ run' = IF run = "reading" THEN "broken" ELSE run
    /\ UNCHANGED <<disk, args, pc, file_name, number_complex_samples, data_type, bytes_per_snap,
                   sample_rate, centre_frequency, wav_file, file, connected, sleep_time,
                   parsed, raw_bytes, first_read, n_ok>>

\* close forgetting the handle it has closed
close_dropshandle ==
    /\ pc = "constructed"
    /\ wav_file' = NoHandle
    /\ file' = NoHandle
    /\ connected' = FALSE
    /\ Record(Outcome("close", "none", "", "None"))
    /\ run' = IF run = "reading" THEN "broken" ELSE run
    /\ UNCHANGED <<disk, args, pc, file_name, number_complex_samples, data_type, bytes_per_snap,
                   sample_rate, centre_frequency, sleep_time, parsed, raw_bytes,
                   first_read, n_ok>>

\* close clearing the connected flag only when it closes an open handle
close_flagonlyifopen ==
    /\ pc = "constructed"
    /\ IF wav_file.set
       THEN wav_file' = [wav_file EXCEPT !.open = FALSE] /\ file' = file
       ELSE IF file.set
       THEN file' = [file EXCEPT !.open = FALSE] /\ wav_file' = wav_file
       ELSE UNCHANGED <<wav_file, file>>
    /\ connected' = IF wav_file.open \/ file.open THEN FALSE ELSE connected
    /\ Record(Outcome("close", "none", "", "None"))
    /\ run' = IF run = "reading" THEN "broken" ELSE run
    /\ UNCHANGED <<disk, args, pc, file_name, number_complex_samples, data_type, bytes_per_snap,
                   sample_rate, centre_frequency, sleep_time, parsed, raw_bytes,
                   first_read, n_ok>>

\* Input.close
close ==
    /\ pc = "constructed"
    /\ IF wav_file.set
       THEN wav_file' = [wav_file EXCEPT !.open = FALSE] /\ file' = file
       ELSE IF file.set
       THEN file' = [file EXCEPT !.open = FALSE] /\ wav_file' = wav_file
       ELSE UNCHANGED <<wav_file, file>>
    /\ connected' = FALSE
    /\ Record(Outcome("close", "none", "", "None"))
    /\ run' = IF run = "reading" THEN "broken" ELSE run
    /\ UNCHANGED <<disk, args, pc, file_name, number_complex_samples, data_type, bytes_per_snap,
                   sample_rate, centre_frequency, sleep_time, parsed, raw_bytes,
                   first_read, n_ok>>

\* reconnect setting the flag without moving the read cursor of the raw file
reconnect_noseek ==
    /\ pc = "constructed"
    /\ IF wav_file.set
       THEN /\ wav_file' = [wav_file EXCEPT !.pos = 0]
            /\ file' = file
            /\ connected' = TRUE
            /\ Record(Outcome("reconnect", "none", "", "True"))
       ELSE IF file.set
       THEN IF file.open
            THEN /\ UNCHANGED <<wav_file, file>>
                 /\ connected' = TRUE
                 /\ Record(Outcome("reconnect", "none", "", "True"))
            ELSE /\ UNCHANGED <<wav_file, file>>
                 /\ connected' = FALSE
                 /\ Record(Outcome("reconnect", "ValueError", "closed file", "-"))
       ELSE /\ UNCHANGED <<wav_file, file>>
            /\ connected' = FALSE
            /\ Record(Outcome("reconnect", "none", "", "False"))
    /\ run' = IF run = "reading" THEN "broken" ELSE run
    /\ UNCHANGED <<disk, args, pc, file_name, number_complex_samples, data_type, bytes_per_snap,
                   sample_rate, centre_frequency, sleep_time, parsed, raw_bytes,
                   first_read, n_ok>>

\* Input.reconnect: rewind() of a closed container only resets the frame
\* position; seek() of a closed file raises ValueError
reconnect ==
    /\ pc = "constructed"
    /\ IF wav_file.set
       THEN /\ wav_file' = [wav_file EXCEPT !.pos = 0]
            /\ file' = file
            /\ connected' = TRUE
            /\ Record(Outcome("reconnect", "none", "", "True"))
       ELSE IF file.set
       THEN IF file.open
            THEN /\ file' = [file EXCEPT !.pos = 0]
                 /\ wav_file' = wav_file
                 /\ connected' = TRUE
                 /\ Record(Outcome("reconnect", "none", "", "True"))
            ELSE /\ UNCHANGED <<wav_file, file>>
                 /\ connected' = FALSE
                 /\ Record(Outcome("reconnect", "ValueError", "closed file", "-"))
       ELSE /\ UNCHANGED <<wav_file, file>>
            /\ connected' = FALSE
            /\ Record(Outcome("reconnect", "none", "", "False"))
    /\ run' = IF run = "reading" THEN "broken" ELSE run
    /\ UNCHANGED <<disk, args, pc, file_name, number_complex_samples, data_type, bytes_per_snap,
                   sample_rate, centre_frequency, sleep_time, parsed, raw_bytes,
                   first_read, n_ok>>

\* Input.set_sleep_time
set_sleep_time ==
    /\ pc = "constructed"
    /\ \E t \in 0..MaxSleep : sleep_time' = t
    /\ Record(Outcome("set_sleep_time", "none", "", "None"))
    /\ run' = IF run = "reading" THEN "broken" ELSE run
    /\ UNCHANGED <<disk, args, pc, file_name, number_complex_samples, data_type, bytes_per_snap,
                   sample_rate, centre_frequency, wav_file, file, connected, parsed,
                   raw_bytes, first_read, n_ok>>

Next ==
    \/ Construct
    \/ read_cplx_samples
    \/ read_cplx_samples_oserror
    \/ close
    \/ reconnect
    \/ set_sleep_time

Spec == Init /\ [][Next]_vars

----------------------------------------------------------------------------
(* parse_filename called on its own *)

InitParse ==
    /\ disk = [kind |-> "missing", size |-> 0, nchannels |-> 0, sampwidth |-> 0]
    /\ pc = "parse"
    /\ file_name \in Filenames
    /\ number_complex_samples = 1
    /\ data_type = t8
    /\ args = [data_type |-> t8, sample_rate |-> CallerRate, centre_frequency |-> CallerCf]
    /\ bytes_per_snap = BytesPerSnap(1, t8)
    /\ sample_rate = CallerRate
    /\ centre_frequency = CallerCf
    /\ wav_file = NoHandle
    /\ file = NoHandle
    /\ connected = FALSE
    /\ sleep_time = 0
    /\ parsed = ParseDefaults
    /\ raw_bytes = <<>>
    /\ hist = <<>>
    /\ replay = "none"
    /\ exhausted = FALSE
    /\ first_read = [set |-> FALSE, exc |-> "none", bytes |-> <<>>]
    /\ run = "none"
    /\ n_ok = 0

\* a call parse_filename(file_name)
ParseCall ==
    /\ pc = "parse"
    /\ parsed' = parse_filename(file_name)
    /\ pc' = "parsed"
    /\ UNCHANGED <<disk, args, file_name, number_complex_samples, data_type, bytes_per_snap,
                   sample_rate, centre_frequency, wav_file, file, connected, sleep_time,
                   raw_bytes, hist, replay, exhausted, first_read, run, n_ok>>

NextParse == ParseCall

SpecParse == InitParse /\ [][NextParse]_vars

----------------------------------------------------------------------------
(* Claims about Input *)

\* C1: on a raw file of k*B + r bytes, B = bytes_per_snap and 0 < r < B, the
\* reads of a run started right after construction (no other call and no I/O
\* fault in between) succeed exactly k times: no read of the run fails before
\* k have succeeded, the read after them fails, and it fails with the
\* end-of-stream error.
C1_ReadsUntilShortTail ==
    (pc = "constructed" /\ disk.kind = "raw" /\ disk.size % bytes_per_snap # 0) =>
        /\ run = "reading" => n_ok <= disk.size \div bytes_per_snap
        /\ run = "ended_eof" => n_ok = disk.size \div bytes_per_snap
        /\ run # "ended_other"

C1_Witness ==
    /\ pc = "constructed" /\ disk.kind = "raw" /\ disk.size % bytes_per_snap # 0
    /\ run = "ended_eof" /\ n_ok = 2 /\ IsEof(Last(hist))

\* one read from the start of the stream yields exactly bytes_per_snap bytes
HoldsFullSnapshot ==
    IF wav_file.set THEN Len(ReadFrames(0, number_complex_samples)) = bytes_per_snap
    ELSE file.set /\ Len(FileRead(0, bytes_per_snap)) = bytes_per_snap

\* the last two calls were: a read that failed with end-of-stream, reconnect
ExhaustedRewound == replay = "rewound"

\* the last three calls were: a read that failed with end-of-stream,
\* reconnect, a read whose underlying read returned
ExhaustedRewoundRead == replay = "reread"

RealNamed(fn) ==
    LET p == Split(fn)
        n == Len(p)
    IN n >= 4 /\ p[n - 2] = real_s /\ FloatOf(p[n - 1]).ok /\ p[n] \in supported_data_types

\* C3 (as claimed): constructing Input on a raw-binary file whose name carries
\* the real marker fails with a configuration error (ValueError); no
\* connected source comes out of it.
C3_RealNameRejected ==
    (pc # "new" /\ disk.kind = "raw" /\ RealNamed(file_name)) =>
        pc = "failed" /\ Last(hist).exc = "ValueError" /\ ~connected

\* C9: close never raises and leaves the connected flag false, whatever was
\* called before it, close itself included.
C9_CloseClearsConnected ==
    (pc = "constructed" /\ hist # <<>> /\ Last(hist).op = "close") =>
        Last(hist).exc = "none" /\ ~connected

C9_Witness ==
    /\ pc = "constructed" /\ Len(hist) = 2
    /\ hist[1].op = "close" /\ hist[2].op = "close" /\ ~connected

\* C10 (as claimed): when the path cannot be opened at all, construction
\* fails with ValueError, the error kind of the configuration errors.
C10_OpenFailureIsValueError ==
    (pc # "new" /\ disk.kind = "missing") =>
        pc = "failed" /\ Last(hist).exc = "ValueError"

\* construction succeeded on the raw-binary handle
RawConstructed == pc = "constructed" /\ file.set

\* C11: after a successful construction in raw-binary mode the effective
\* parameters follow the filename parse: when it gives ok and complex, the
\* encoding and the sample rate are the parsed ones and the centre frequency
\* is the parsed one if nonzero, else the caller's; when it gives ok = false,
\* encoding, sample rate and centre frequency are exactly the caller's.
C11_RawEffectiveParameters ==
    RawConstructed =>
        /\ (parsed.ok /\ parsed.complex_flag) =>
              /\ data_type = parsed.data_type
              /\ bytes_per_snap = BytesPerSnap(number_complex_samples, parsed.data_type)
              /\ sample_rate = parsed.sample_rate_hz
              /\ centre_frequency = IF parsed.centre_frequency # Zero
                                    THEN parsed.centre_frequency
                                    ELSE args.centre_frequency
        /\ ~parsed.ok =>
              /\ data_type = args.data_type
              /\ bytes_per_snap = BytesPerSnap(number_complex_samples, args.data_type)
              /\ sample_rate = args.sample_rate
              /\ centre_frequency = args.centre_frequency
        /\ parsed = parse_filename(file_name)

C11_Witness ==
    /\ RawConstructed /\ parsed.ok /\ parsed.complex_flag
    /\ parsed.centre_frequency = Zero /\ centre_frequency = args.centre_frequency
    /\ data_type # args.data_type /\ sample_rate # args.sample_rate
    /\ hist # <<>> /\ Last(hist).op = "read"

\* the last call was a read_cplx_samples whose underlying read returned
LastReadReturned ==
    /\ pc = "constructed" /\ hist # <<>> /\ Last(hist).op = "read"
    /\ Last(hist).msg \notin {"OSError", "closed file"}

\* the last call was a read of the container that found at least
\* number_complex_samples frames left and so obtained that many
ReadFullFrames ==
    /\ LastReadReturned /\ wav_file.set
    /\ Len(raw_bytes) = number_complex_samples * FrameSize

\* C12 (as claimed): in container mode a read that finds at least
\* number_complex_samples frames left obtains exactly bytes_per_snap =
\* number_complex_samples * 2 * bytes_per_sample(encoding) bytes and succeeds,
\* whatever the caller's encoding and the accepted sample width (1 or 2).
C12_ContainerReadFullSnapshot ==
    ReadFullFrames =>
        /\ Len(raw_bytes) = bytes_per_snap
        /\ Last(hist).exc = "none" /\ Last(hist).ret = "array"

\* C13: a read that obtains fewer than bytes_per_snap bytes leaves the
\* connected flag false, fails with the end-of-stream error and returns no
\* array; a read that returns an array obtained exactly bytes_per_snap bytes.
C13_ShortReadIsEndOfStream ==
    LastReadReturned =>
        /\ ((wav_file.set \/ file.set) /\ Len(raw_bytes) < bytes_per_snap) =>
              ~connected /\ IsEof(Last(hist)) /\ Last(hist).ret = "-"
        /\ Last(hist).ret = "array" =>
              Last(hist).exc = "none" /\ Len(raw_bytes) = bytes_per_snap

C13_Witness ==
    /\ LastReadReturned /\ Len(hist) = 2
    /\ hist[1].op = "read" /\ hist[1].ret = "array"
    /\ 0 < Len(raw_bytes) /\ Len(raw_bytes) < bytes_per_snap
    /\ ~connected /\ IsEof(Last(hist))

\* the path opens as a container that Input does not take: not two channels,
\* or samples wider than two bytes
BadContainer == disk.kind = "wav" /\ (disk.nchannels # 2 \/ disk.sampwidth > 2)

\* C14: construction on a container with a channel count other than 2 or a
\* sample width above 2 bytes fails with a configuration error (ValueError);
\* it never yields a connected source and the path is not opened again as a
\* raw-binary file.
C14_BadContainerRejected ==
    (pc # "new" /\ BadContainer) =>
        /\ pc = "failed" /\ Last(hist).op = "__init__" /\ Last(hist).exc = "ValueError"
        /\ ~connected
        /\ ~file.set /\ parsed = ParseDefaults

C14_Witness ==
    /\ pc = "failed" /\ disk.kind = "wav" /\ disk.nchannels = 2 /\ disk.sampwidth = 3
    /\ Last(hist).msg = "wav but more than 2 bytes per sample" /\ ~connected

\* C15: _wav_file and _file are never both set; after a successful
\* construction exactly one of them is set, the container handle when the
\* path opened as a container and the raw handle otherwise, and no read,
\* reconnect, close or set_sleep_time changes which one it is.
C15_OneHandle ==
    /\ ~(wav_file.set /\ file.set)
    /\ pc = "constructed" =>
          /\ wav_file.set # file.set
          /\ wav_file.set = (disk.kind = "wav")

C15_Witness ==
    /\ pc = "constructed" /\ Len(hist) = 2
    /\ hist[1].op = "close" /\ hist[2].op = "reconnect"
    /\ file.set /\ ~wav_file.set /\ sleep_time # 0 /\ raw_bytes # <<>>

\* close has been called: the handle that is set is closed
Closed ==
    /\ pc = "constructed"
    /\ (wav_file.set /\ ~wav_file.open) \/ (file.set /\ ~file.open)

\* C17 (as claimed): once close has been called the connected flag stays
\* false under every later reconnect, read_cplx_samples, close and
\* set_sleep_time, on the container handle and on the raw handle, and a
\* reconnect after close does not report success.
C17_ClosedIsTerminal ==
    Closed =>
        /\ ~connected
        /\ ~(Last(hist).op = "reconnect" /\ Last(hist).ret = "True")

\* C18 (as claimed): after a read has failed with end-of-stream, and until
\* reconnect or close is called, the connected flag stays false and every
\* read_cplx_samples whose underlying read returns fails with end-of-stream
\* again; set_sleep_time changes nothing of this.
C18_ExhaustionSticky ==
    (pc = "constructed" /\ exhausted) =>
        /\ ~connected
        /\ LastReadReturned => IsEof(Last(hist))

\* C19 (as claimed): when the construction of Input fails, no handle it
\* opened is still open when the error leaves the constructor.
C19_FailedConstructionReleasesHandles ==
    pc = "failed" => ~wav_file.open /\ ~file.open

----------------------------------------------------------------------------
(* Claims about parse_filename *)

\* the last three fields are the marker, a numeric rate and a supported tag
TailValid(p, marker) ==
    /\ Len(p) >= 4
    /\ p[Len(p) - 2] = marker
    /\ FloatOf(p[Len(p) - 1]).ok
    /\ p[Len(p)] \in supported_data_types

\* the field is cf followed by one or more digits
IsCfField(f) == Len(f) >= 3 /\ f[1] = "c" /\ f[2] = "f" /\ AllDigits(SliceFrom(f, 2))

\* <name>.cf<NNNN>.cplx.<rate>.<tag>
ShortForm(fn) ==
    LET p == Split(fn)
    IN Len(p) >= 5 /\ TailValid(p, cplx_s) /\ IsCfField(p[Len(p) - 3])

\* <name>.cf<NNNN>.<frac>.cplx.<rate>.<tag>
LongForm(fn) ==
    LET p == Split(fn)
    IN /\ Len(p) >= 6 /\ TailValid(p, cplx_s)
       /\ p[Len(p) - 3] # <<>> /\ AllDigits(p[Len(p) - 3])
       /\ IsCfField(p[Len(p) - 4])

\* some field among the first k contains cf
CfAmongFirst(fn, k) == \E i \in 1..k : Contains(Split(fn)[i], <<"c", "f">>)

\* what C6 promises of a short-form filename
ShortFormResult(fn) ==
    LET p == Split(fn)
        n == Len(p)
    IN /\ parsed.exc = "none" /\ parsed.ok /\ parsed.complex_flag
       /\ parsed.data_type = p[n]
       /\ parsed.sample_rate_hz = FloatOf(p[n - 1]).val
       /\ parsed.centre_frequency = Norm(DigitsVal(SliceFrom(p[n - 3], 2)), 6)

\* what C7 promises of a long-form filename
LongFormResult(fn) ==
    LET p == Split(fn)
        n == Len(p)
    IN /\ parsed.exc = "none" /\ parsed.ok
       /\ parsed.centre_frequency =
              Norm(DigitsVal(SliceFrom(p[n - 4], 2) \o p[n - 3]), 6 - Len(p[n - 3]))

\* C4 (as claimed): a filename of at least 4 fields with the real marker third
\* from last, a numeric rate and a supported tag parses to ok = true,
\* is_complex = false.
C4_RealParsesOk ==
    (pc = "parsed" /\ RealNamed(file_name)) =>
        parsed.exc = "none" /\ parsed.ok /\ ~parsed.complex_flag

\* C5 (as claimed): parse_filename never raises, whatever the filename.
C5_ParseNeverRaises == pc = "parsed" => parsed.exc = "none"

\* C6 (as claimed): every <name>.cf<NNNN>.cplx.<rate>.<tag>, for any <name>,
\* parses to ok, the tag, complex, the rate and NNNN * 1e6.
C6_ShortFormAnyName ==
    (pc = "parsed" /\ ShortForm(file_name)) => ShortFormResult(file_name)

\* C6 (amended): every <name>.cf<NNNN>.cplx.<rate>.<tag> in which no field of
\* <name> contains cf parses to ok, the tag, complex, the rate and NNNN * 1e6.
C6_ShortFormPlainName ==
    (pc = "parsed" /\ ShortForm(file_name)
        /\ ~CfAmongFirst(file_name, Len(Split(file_name)) - 4)) =>
        ShortFormResult(file_name)

C6_Witness ==
    /\ pc = "parsed" /\ ShortForm(file_name)
    /\ ~CfAmongFirst(file_name, Len(Split(file_name)) - 4)
    /\ parsed.ok /\ parsed.data_type = t16tle /\ parsed.centre_frequency = [m |-> 1, e |-> 6]

\* C7 (as claimed): every <name>.cf<NNNN>.<frac>.cplx.<rate>.<tag> parses to
\* ok with centre frequency NNNN.frac * 1e6.
C7_LongFormAnyName ==
    (pc = "parsed" /\ LongForm(file_name)) => LongFormResult(file_name)

\* C7 (amended): every <name>.cf<NNNN>.<frac>.cplx.<rate>.<tag> in which no
\* field of <name> contains cf parses to ok with centre frequency
\* NNNN.frac * 1e6.
C7_LongFormPlainName ==
    (pc = "parsed" /\ LongForm(file_name)
        /\ ~CfAmongFirst(file_name, Len(Split(file_name)) - 5)) =>
        LongFormResult(file_name)

C7_Witness ==
    /\ pc = "parsed" /\ LongForm(file_name)
    /\ ~CfAmongFirst(file_name, Len(Split(file_name)) - 5)
    /\ parsed.ok /\ parsed.centre_frequency = [m |-> 15, e |-> 5]

\* more than one field of the filename contains cf
ManyCfFields(fn) == Cardinality({i \in 1..Len(Split(fn)) : Contains(Split(fn)[i], <<"c", "f">>)}) > 1

\* C8: when more than one field contains cf, parse_filename returns centre
\* frequency 0.0, and ok is true if the marker is cplx, the rate numeric and
\* the tag in the catalogue.
C8_AmbiguousCfIsZero ==
    (pc = "parsed" /\ ManyCfFields(file_name)) =>
        /\ parsed.exc = "none"
        /\ parsed.centre_frequency = Zero
        /\ TailValid(Split(file_name), cplx_s) => parsed.ok

C8_Witness ==
    /\ pc = "parsed" /\ ManyCfFields(file_name) /\ TailValid(Split(file_name), cplx_s)
    /\ Split(file_name)[Len(Split(file_name)) - 3] = cf1_s
    /\ parsed.ok /\ parsed.centre_frequency = Zero

\* C16 (as claimed): whenever parse_filename returns ok = true, the returned
\* sample_rate_hz is not negative; a negative rate field makes ok false.
C16_OkRateNonNegative ==
    (pc = "parsed" /\ parsed.exc = "none" /\ parsed.ok) => parsed.sample_rate_hz.m >= 0

\* field i of p is the only field containing cf and the cplx/real marker
\* comes right after it
CfThenMarker(p, i) ==
    /\ CfIndices(p) = {i}
    /\ i + 1 <= Len(p) /\ p[i + 1] \in {cplx_s, real_s}

\* field i of p is the only field containing cf, one field and then the
\* cplx/real marker come after it, and v is cf<NNNN> with that one field as
\* its fraction, in Hz
CfFractionThenMarker(p, i, v) ==
    /\ CfIndices(p) = {i}
    /\ i + 2 <= Len(p) /\ p[i + 2] \in {cplx_s, real_s}
    /\ FloatOf(SliceFrom(p[i], 2) \o <<".">> \o p[i + 1]).ok
    /\ v = TimesMega(FloatOf(SliceFrom(p[i], 2) \o <<".">> \o p[i + 1]).val)

\* C20 (as claimed): parse_filename returns a nonzero centre frequency only
\* when exactly one field contains cf and that field is followed at once by
\* the cplx/real marker, or by exactly one fraction field and then the marker,
\* the fraction used being the field right after the cf field.
C20_NonzeroCfOnlyWellFormed ==
    (pc = "parsed" /\ parsed.exc = "none" /\ parsed.centre_frequency # Zero) =>
        \E i \in 1..Len(PartsOf(file_name)) :
            \/ CfThenMarker(PartsOf(file_name), i)
            \/ CfFractionThenMarker(PartsOf(file_name), i, parsed.centre_frequency)

====
